---- MODULE Spec2Model ----
(***************************************************************************)
(* Model of classification/classifier_server.py: a gRPC server that loads  *)
(* a pickled decision model once, then serves the unary Classify and the   *)
(* streaming ClassifyStreaming operations from a pool of worker threads.   *)
(***************************************************************************)
EXTENDS FiniteSets, Integers, Naturals, Sequences, TLC

(* ---------------------------------------------------------------------- *)
(* Bounds of the model                                                     *)
(* ---------------------------------------------------------------------- *)
\* number of calls, unary or streaming, that clients issue in Spec
MaxCalls == 2
\* total number of FlowMessages clients write on streaming calls in Spec
MaxMsgs == 2
\* number of unary calls that clients issue in SpecUnary
MaxUnary == 3
\* number of FlowMessages the client writes on the one call of SpecStream
MaxLen == 3
\* number of streaming calls that clients open in SpecPool
MaxPool == 11

(* ---------------------------------------------------------------------- *)
(* Program constants                                                       *)
(* ---------------------------------------------------------------------- *)
\* futures.ThreadPoolExecutor(max_workers=10)
max_workers == 10

\* the calls of the largest of the specifications
CallIds == 1..(CHOOSE n \in {MaxCalls, MaxUnary, MaxPool} :
                  \A m \in {MaxCalls, MaxUnary, MaxPool} : m <= n)

(* ---------------------------------------------------------------------- *)
(* FlowMessage values put on the wire by clients                           *)
(* ---------------------------------------------------------------------- *)
FlowMessage(sp, dp, pr, l7, ib, ob, ip, op, tf, du) ==
    [L4SrcPort |-> sp, L4DstPort |-> dp, Protocol |-> pr, L7Proto |-> l7,
     InBytes |-> ib, OutBytes |-> ob, InPkts |-> ip, OutPkts |-> op,
     TCPFlags |-> tf, FlowDurationMilliseconds |-> du]

WebFlow == FlowMessage(443, 51000, 6, 91, 1000, 500, 10, 8, 24, 1200)

DnsFlow == FlowMessage(53, 40000, 17, 5, 80, 120, 1, 2, 0, 30)

BulkFlow == FlowMessage(22, 60000, 7, 92, 900000, 700, 4000, 35, 27, 86400)

Messages == {WebFlow, DnsFlow, BulkFlow}

(* ---------------------------------------------------------------------- *)
(* The model artifact 'flow-or-malicious.model'                            *)
(*                                                                         *)
(* A readable artifact unpickles to a decision tree: it tests one feature  *)
(* of the vector against a threshold and answers a class label; its        *)
(* predict raises on a vector with a feature above the range it accepts.   *)
(* ---------------------------------------------------------------------- *)
Tree(f, t, lo, hi, lim) == [feat |-> f, thr |-> t, le |-> lo, gt |-> hi, limit |-> lim]

\* splits on InBytes; rejects the bulk flow
ByteTree == Tree(5, 500, 0, 1, 100000)

\* splits on Protocol; answers the labels 2 and 1, rejects nothing
ProtoTree == Tree(3, 6, 2, 1, 100000000)

Models == {ByteTree, ProtoTree}

\* the file on disk: a pickle of a tree, no file at all, or bytes that do not unpickle
Artifacts == {<<"pickle", t>> : t \in Models} \cup {<<"missing">>, <<"garbage">>}

\* Classifier.model before the class body has run
NoModel == <<>>

\* model.predict([[...]]) raises instead of answering
predictRaises(m, X) == \E i \in 1..Len(X[1]) : X[1][i] > m.limit

\* model.predict([[...]]): the array of labels, one per row
predict(m, X) == <<IF X[1][m.feat] <= m.thr THEN m.le ELSE m.gt>>

\* variant: the byte counters change places in the row
featuresSwapped(msg) ==
    << <<msg.L4SrcPort,
         msg.L4DstPort,
         msg.Protocol,
         msg.L7Proto,
         msg.OutBytes,
         msg.InBytes,
         msg.InPkts,
         msg.OutPkts,
         msg.TCPFlags,
         msg.FlowDurationMilliseconds>> >>

\* the argument Classifier.classify builds for predict: one row, ten features
features(msg) ==
    << <<msg.L4SrcPort,
         msg.L4DstPort,
         msg.Protocol,
         msg.L7Proto,
         msg.InBytes,
         msg.OutBytes,
         msg.InPkts,
         msg.OutPkts,
         msg.TCPFlags,
         msg.FlowDurationMilliseconds>> >>

\* variant: the exception of predict is swallowed and a label answered anyway
classifyRaisesSwallowed(m, msg) == FALSE

\* Classifier.classify(msg) lets the exception of predict through
classifyRaises(m, msg) == predictRaises(m, features(msg))

\* Classifier.classify(msg)
classify(m, msg) == predict(m, features(msg))

\* variant: any label that is not 0 counts as malicious
maliciousTruthy(result) == result[1] # 0

\* if result[0] == 1: result = True  else: result = False
malicious(result) == result[1] = 1

(* ---------------------------------------------------------------------- *)
(* State                                                                   *)
(* ---------------------------------------------------------------------- *)
VARIABLES
    artifact,   \* what is on disk at 'flow-or-malicious.model'
    phase,      \* how far the process has got through start-up
    model,      \* the class attribute Classifier.model: <<>> or <<tree>>
    loads,      \* how many times pickle.load has run
    listener,   \* TRUE once the port is bound
    kind,       \* per call: "none", "unary" or "stream"
    cst,        \* per call: where the call is
    inbox,      \* per call: the FlowMessages the client has sent on it
    half,       \* per call: the client has closed its sending side
    nread,      \* per call: how many messages the handler has taken
    msg,        \* per call: the handler's local msg / request, <<>> when unset
    out,        \* per call: the FlowMessageClass.malicious values sent back
    status,     \* per call: the status the call ended with
    queue,      \* calls submitted to the executor, not yet on a worker
    fed,        \* per call: the rows handed to model.predict, in order
    labels      \* per call: the labels model.predict returned, in order

vars == <<artifact, phase, model, loads, listener, kind, cst, inbox, half,
          nread, msg, out, status, queue, fed, labels>>

server == <<artifact, phase, model, loads, listener>>

\* variant: a streaming call that waits for its next message holds no worker
ActiveBusyOnly == {c \in CallIds : cst[c] \in {"running", "CLASSIFYING"}}

\* calls that hold a worker thread of the executor
Active == {c \in CallIds : cst[c] \in {"running", "AWAITING_RECORD", "CLASSIFYING"}}

Closed == {"CLOSED_OK", "CLOSED_ERROR"}

\* the number of FlowMessages written on the streaming calls 1..n
RECURSIVE Streamed(_)
Streamed(n) ==
    IF n = 0 THEN 0
    ELSE (IF kind[n] = "stream" THEN Len(inbox[n]) ELSE 0) + Streamed(n - 1)

Init ==
    /\ artifact \in Artifacts
    /\ phase = "import"
    /\ model = NoModel
    /\ loads = 0
    /\ listener = FALSE
    /\ kind = [c \in CallIds |-> "none"]
    /\ cst = [c \in CallIds |-> "none"]
    /\ inbox = [c \in CallIds |-> <<>>]
    /\ half = [c \in CallIds |-> FALSE]
    /\ nread = [c \in CallIds |-> 0]
    /\ msg = [c \in CallIds |-> <<>>]
    /\ out = [c \in CallIds |-> <<>>]
    /\ status = [c \in CallIds |-> "none"]
    /\ queue = <<>>
    /\ fed = [c \in CallIds |-> <<>>]
    /\ labels = [c \in CallIds |-> <<>>]

calls == <<kind, cst, inbox, half, nread, msg, out, status, queue, fed, labels>>

(* ---------------------------------------------------------------------- *)
(* Start-up: the module body, then serve(port)                             *)
(* ---------------------------------------------------------------------- *)
\* class Classifier: model = pickle.load(open('flow-or-malicious.model', 'rb'))
LoadModel ==
    /\ phase = "import"
    /\ artifact[1] = "pickle"
    /\ model' = <<artifact[2]>>
    /\ loads' = loads + 1
    /\ phase' = "loaded"
    /\ UNCHANGED <<artifact, listener, calls>>

\* variant: the failure to load is caught and start-up goes on without a model
LoadFailsIgnored ==
    /\ phase = "import"
    /\ artifact[1] # "pickle"
    /\ loads' = loads + 1
    /\ phase' = "loaded"
    /\ UNCHANGED <<artifact, model, listener, calls>>

\* open() or pickle.load raises in the class body: the import dies
LoadFails ==
    /\ phase = "import"
    /\ artifact[1] # "pickle"
    /\ loads' = loads + 1
    /\ phase' = "exited"
    /\ UNCHANGED <<artifact, model, listener, calls>>

\* server = grpc.server(futures.ThreadPoolExecutor(max_workers=10))
CreateServer ==
    /\ phase = "loaded"
    /\ phase' = "created"
    /\ UNCHANGED <<artifact, model, loads, listener, calls>>

\* add_FlowMessageClassifierServicer_to_server(FlowMessageClassifierServicer(), server)
AddServicer ==
    /\ phase = "created"
    /\ phase' = "registered"
    /\ UNCHANGED <<artifact, model, loads, listener, calls>>

\* server.add_insecure_port(f'[::]:{port}')
AddInsecurePort ==
    /\ phase = "registered"
    /\ listener' = TRUE
    /\ phase' = "bound"
    /\ UNCHANGED <<artifact, model, loads, calls>>

\* server.start()
Start ==
    /\ phase = "bound"
    /\ phase' = "serving"
    /\ UNCHANGED <<artifact, model, loads, listener, calls>>

\* server.wait_for_termination() is interrupted by a termination signal: no
\* handler is installed and server.stop is never called, so the process dies
\* where it stands and every call it had accepted is lost to its client
Sigterm ==
    /\ phase = "serving"
    /\ phase' = "exited"
    /\ listener' = FALSE
    /\ cst' = [c \in CallIds |->
                 IF cst[c] \in {"none", "CLOSED_OK", "CLOSED_ERROR"} THEN cst[c] ELSE "CLOSED_ERROR"]
    /\ status' = [c \in CallIds |->
                    IF cst[c] \in {"none", "CLOSED_OK", "CLOSED_ERROR"} \/ status[c] # "none"
                    THEN status[c] ELSE "UNAVAILABLE"]
    /\ queue' = <<>>
    /\ UNCHANGED <<artifact, model, loads, kind, inbox, half, nread, msg, out, fed, labels>>

(* ---------------------------------------------------------------------- *)
(* Clients                                                                 *)
(* ---------------------------------------------------------------------- *)
\* calls are numbered in the order clients issue them
Fresh(c) == cst[c] = "none" /\ \A d \in CallIds : d < c => cst[d] # "none"

\* a client calls Classify(r); the server submits the call to the executor
ClientClassify(c, r) ==
    /\ phase = "serving"
    /\ Fresh(c)
    /\ kind' = [kind EXCEPT ![c] = "unary"]
    /\ inbox' = [inbox EXCEPT ![c] = <<r>>]
    /\ half' = [half EXCEPT ![c] = TRUE]
    /\ cst' = [cst EXCEPT ![c] = "queued"]
    /\ queue' = Append(queue, c)
    /\ UNCHANGED <<server, nread, msg, out, status, fed, labels>>

\* variant: a call that finds every worker taken is refused
ClientOpenStreamRejecting(c) ==
    /\ phase = "serving"
    /\ Fresh(c)
    /\ kind' = [kind EXCEPT ![c] = "stream"]
    /\ IF Cardinality(Active) < max_workers
       THEN /\ cst' = [cst EXCEPT ![c] = "queued"]
            /\ queue' = Append(queue, c)
            /\ UNCHANGED status
       ELSE /\ cst' = [cst EXCEPT ![c] = "CLOSED_ERROR"]
            /\ status' = [status EXCEPT ![c] = "RESOURCE_EXHAUSTED"]
            /\ UNCHANGED queue
    /\ UNCHANGED <<server, inbox, half, nread, msg, out, fed, labels>>

\* a client opens ClassifyStreaming; the server submits the call to the executor
ClientOpenStream(c) ==
    /\ phase = "serving"
    /\ Fresh(c)
    /\ kind' = [kind EXCEPT ![c] = "stream"]
    /\ cst' = [cst EXCEPT ![c] = "queued"]
    /\ queue' = Append(queue, c)
    /\ UNCHANGED <<server, inbox, half, nread, msg, out, status, fed, labels>>

\* the client writes one more FlowMessage on an open stream
ClientSend(c, r) ==
    /\ kind[c] = "stream"
    /\ cst[c] \notin Closed
    /\ ~half[c]
    /\ inbox' = [inbox EXCEPT ![c] = Append(@, r)]
    /\ UNCHANGED <<server, kind, cst, half, nread, msg, out, status, queue, fed, labels>>

\* variant: the handler never learns that the client has cancelled
cancelledUnseen(c) == FALSE

\* what the request iterator and the sending of a yielded message see of
\* call c: the client has cancelled it
cancelled(c) == status[c] = "CANCELLED"

\* the client cancels a streaming call that has not ended: for the client the
\* call has the status CANCELLED from here on; the handler learns of it at
\* its next step
ClientCancel(c) ==
    /\ kind[c] = "stream"
    /\ cst[c] \notin Closed
    /\ status[c] = "none"
    /\ status' = [status EXCEPT ![c] = "CANCELLED"]
    /\ UNCHANGED <<server, kind, cst, inbox, half, nread, msg, out, queue, fed, labels>>

\* the client closes its sending side: end of input
ClientHalfClose(c) ==
    /\ kind[c] = "stream"
    /\ cst[c] \notin Closed
    /\ ~half[c]
    /\ half' = [half EXCEPT ![c] = TRUE]
    /\ UNCHANGED <<server, kind, cst, inbox, nread, msg, out, status, queue, fed, labels>>

(* ---------------------------------------------------------------------- *)
(* The executor                                                            *)
(* ---------------------------------------------------------------------- *)
\* a free worker thread of ThreadPoolExecutor(max_workers=10) takes the oldest call
Dispatch ==
    /\ queue # <<>>
    /\ Cardinality(Active) < max_workers
    /\ LET c == Head(queue) IN
         cst' = [cst EXCEPT ![c] = IF kind[c] = "unary" THEN "running" ELSE "AWAITING_RECORD"]
    /\ queue' = Tail(queue)
    /\ UNCHANGED <<server, kind, inbox, half, nread, msg, out, status, fed, labels>>

(* ---------------------------------------------------------------------- *)
(* FlowMessageClassifierServicer                                           *)
(* ---------------------------------------------------------------------- *)
\* variant: predict refits the tree it is called on
modelAfterPredictRefit(m) == IF m = <<ByteTree>> THEN <<ProtoTree>> ELSE <<ByteTree>>

\* variant: every call unpickles a model again, and finds another file
modelAfterPredictReloaded(m) == <<ByteTree>>

\* Classifier.model after __cls__.model.predict(...): predict only reads the
\* tree, and classify never assigns the class attribute
modelAfterPredict(m) == m

\* variant: the handler takes its request from a slot that the call started
\* last has overwritten
requestShared(c) ==
    LET running == {d \in CallIds : cst[d] = "running"} IN
    inbox[CHOOSE d \in running : \A e \in running : e <= d][1]

\* the request argument of Classify: the one message of this call
request(c) == inbox[c][1]

\* variant: the exception of predict is not contained in the call and brings
\* the server process down
ClassifyFatal(c) ==
    /\ cst[c] = "running"
    /\ fed' = [fed EXCEPT ![c] = Append(@, features(request(c))[1])]
    /\ IF classifyRaises(model[1], request(c))
       THEN /\ cst' = [cst EXCEPT ![c] = "CLOSED_ERROR"]
            /\ status' = [status EXCEPT ![c] = "UNKNOWN"]
            /\ phase' = "exited"
            /\ UNCHANGED <<out, labels>>
       ELSE LET result == classify(model[1], request(c)) IN
            /\ labels' = [labels EXCEPT ![c] = Append(@, result[1])]
            /\ out' = [out EXCEPT ![c] = Append(@, malicious(result))]
            /\ cst' = [cst EXCEPT ![c] = "CLOSED_OK"]
            /\ status' = [status EXCEPT ![c] = "OK"]
            /\ UNCHANGED phase
    /\ model' = modelAfterPredict(model)
    /\ UNCHANGED <<artifact, loads, listener, kind, inbox, half, nread, msg, queue>>

\* Classify(self, request, context); an exception leaves the handler and the
\* framework ends the call with its status for that, UNKNOWN
Classify(c) ==
    /\ cst[c] = "running"
    /\ fed' = [fed EXCEPT ![c] = Append(@, features(request(c))[1])]
    /\ IF classifyRaises(model[1], request(c))
       THEN /\ cst' = [cst EXCEPT ![c] = "CLOSED_ERROR"]
            /\ status' = [status EXCEPT ![c] = "UNKNOWN"]
            /\ UNCHANGED <<out, labels>>
       ELSE LET result == classify(model[1], request(c)) IN
            /\ labels' = [labels EXCEPT ![c] = Append(@, result[1])]
            /\ out' = [out EXCEPT ![c] = Append(@, malicious(result))]
            /\ cst' = [cst EXCEPT ![c] = "CLOSED_OK"]
            /\ status' = [status EXCEPT ![c] = "OK"]
    /\ model' = modelAfterPredict(model)
    /\ UNCHANGED <<artifact, phase, loads, listener, kind, inbox, half, nread, msg, queue>>

\* variant: the loop takes the newest message that has arrived, not the oldest unread
nextMessageNewest(c) == inbox[c][Len(inbox[c])]

\* what the next step of 'for msg in request_iterator' binds msg to
nextMessage(c) == inbox[c][nread[c] + 1]

\* variant: the loop ends as soon as the client has closed, unread messages or not
exhaustedOnClose(c) == half[c]

\* variant: the end of input never reaches the loop
exhaustedNever(c) == FALSE

\* request_iterator has nothing more to give: the loop ends
exhausted(c) == half[c] /\ nread[c] = Len(inbox[c])

\* variant: the loop takes two messages at once when two are waiting, and
\* answers only the second
StreamNextAhead(c) ==
    /\ cst[c] = "AWAITING_RECORD"
    /\ ~cancelled(c)
    /\ nread[c] < Len(inbox[c])
    /\ LET n == IF nread[c] + 2 <= Len(inbox[c]) THEN 2 ELSE 1 IN
         /\ msg' = [msg EXCEPT ![c] = <<inbox[c][nread[c] + n]>>]
         /\ nread' = [nread EXCEPT ![c] = @ + n]
    /\ cst' = [cst EXCEPT ![c] = "CLASSIFYING"]
    /\ UNCHANGED <<server, kind, inbox, half, out, status, queue, fed, labels>>

\* for msg in request_iterator: the next message has arrived
StreamNext(c) ==
    /\ cst[c] = "AWAITING_RECORD"
    /\ ~cancelled(c)
    /\ nread[c] < Len(inbox[c])
    /\ msg' = [msg EXCEPT ![c] = <<nextMessage(c)>>]
    /\ nread' = [nread EXCEPT ![c] = @ + 1]
    /\ cst' = [cst EXCEPT ![c] = "CLASSIFYING"]
    /\ UNCHANGED <<server, kind, inbox, half, out, status, queue, fed, labels>>

\* variant: the call is closed cleanly as soon as the client has closed, also
\* in the middle of the loop body
StreamEndAnywhere(c) ==
    /\ cst[c] \in {"AWAITING_RECORD", "CLASSIFYING"}
    /\ ~cancelled(c)
    /\ half[c]
    /\ cst' = [cst EXCEPT ![c] = "CLOSED_OK"]
    /\ status' = [status EXCEPT ![c] = "OK"]
    /\ UNCHANGED <<server, kind, inbox, half, nread, msg, out, queue, fed, labels>>

\* for msg in request_iterator: end of input, the generator returns
StreamEnd(c) ==
    /\ cst[c] = "AWAITING_RECORD"
    /\ ~cancelled(c)
    /\ exhausted(c)
    /\ cst' = [cst EXCEPT ![c] = "CLOSED_OK"]
    /\ status' = [status EXCEPT ![c] = "OK"]
    /\ UNCHANGED <<server, kind, inbox, half, nread, msg, out, queue, fed, labels>>

\* for msg in request_iterator: the call was cancelled, the iterator raises
\* in the generator and the call ends
StreamCancelled(c) ==
    /\ cst[c] = "AWAITING_RECORD"
    /\ cancelled(c)
    /\ cst' = [cst EXCEPT ![c] = "CLOSED_ERROR"]
    /\ UNCHANGED <<server, kind, inbox, half, nread, msg, out, status, queue, fed, labels>>

\* the loop body: classify, map the label, yield the FlowMessageClass; what
\* is yielded on a cancelled call is not sent and the generator is not resumed
StreamClassify(c) ==
    /\ cst[c] = "CLASSIFYING"
    /\ fed' = [fed EXCEPT ![c] = Append(@, features(msg[c][1])[1])]
    /\ IF classifyRaises(model[1], msg[c][1])
       THEN /\ cst' = [cst EXCEPT ![c] = "CLOSED_ERROR"]
            /\ status' = [status EXCEPT ![c] = IF cancelled(c) THEN @ ELSE "UNKNOWN"]
            /\ UNCHANGED <<out, labels>>
       ELSE LET result == classify(model[1], msg[c][1]) IN
            /\ labels' = [labels EXCEPT ![c] = Append(@, result[1])]
            /\ IF cancelled(c)
               THEN /\ cst' = [cst EXCEPT ![c] = "CLOSED_ERROR"]
                    /\ UNCHANGED out
               ELSE /\ cst' = [cst EXCEPT ![c] = "AWAITING_RECORD"]
                    /\ out' = [out EXCEPT ![c] = Append(@, malicious(result))]
            /\ UNCHANGED status
    /\ model' = modelAfterPredict(model)
    /\ UNCHANGED <<artifact, phase, loads, listener, kind, inbox, half, nread, msg, queue>>

Next ==
    \/ LoadModel
    \/ LoadFails
    \/ CreateServer
    \/ AddServicer
    \/ AddInsecurePort
    \/ Start
    \/ \E c \in 1..MaxCalls, r \in Messages : ClientClassify(c, r)
    \/ \E c \in 1..MaxCalls : ClientOpenStream(c)
    \/ \E c \in 1..MaxCalls, r \in Messages : Streamed(MaxCalls) < MaxMsgs /\ ClientSend(c, r)
    \/ \E c \in 1..MaxCalls : ClientHalfClose(c)
    \/ Dispatch
    \/ \E c \in CallIds : Classify(c)
    \/ \E c \in CallIds : StreamNext(c)
    \/ \E c \in CallIds : StreamEnd(c)
    \/ \E c \in CallIds : StreamClassify(c)

Spec == Init /\ [][Next]_vars

\* the server with a termination signal arriving while it serves
NextSignal ==
    \/ Next
    \/ Sigterm

SpecSignal == Init /\ [][NextSignal]_vars

\* a message every model answers, and one that ByteTree's predict rejects
LocalMessages == {WebFlow, BulkFlow}

\* the server with clients that may cancel their streaming calls
NextLocal ==
    \/ LoadModel
    \/ LoadFails
    \/ CreateServer
    \/ AddServicer
    \/ AddInsecurePort
    \/ Start
    \/ \E c \in 1..MaxCalls, r \in LocalMessages : ClientClassify(c, r)
    \/ \E c \in 1..MaxCalls : ClientOpenStream(c)
    \/ \E c \in 1..MaxCalls, r \in LocalMessages : Streamed(MaxCalls) < MaxMsgs /\ ClientSend(c, r)
    \/ \E c \in 1..MaxCalls : ClientHalfClose(c)
    \/ \E c \in 1..MaxCalls : ClientCancel(c)
    \/ Dispatch
    \/ \E c \in CallIds : Classify(c)
    \/ \E c \in CallIds : StreamNext(c)
    \/ \E c \in CallIds : StreamEnd(c)
    \/ \E c \in CallIds : StreamCancelled(c)
    \/ \E c \in CallIds : StreamClassify(c)

SpecLocal == Init /\ [][NextLocal]_vars

\* the server under unary calls only
NextUnary ==
    \/ LoadModel
    \/ LoadFails
    \/ CreateServer
    \/ AddServicer
    \/ AddInsecurePort
    \/ Start
    \/ \E c \in 1..MaxUnary, r \in Messages : ClientClassify(c, r)
    \/ Dispatch
    \/ \E c \in CallIds : Classify(c)

SpecUnary == Init /\ [][NextUnary]_vars

\* the server under one streaming call
NextStream ==
    \/ LoadModel
    \/ LoadFails
    \/ CreateServer
    \/ AddServicer
    \/ AddInsecurePort
    \/ Start
    \/ ClientOpenStream(1)
    \/ \E r \in Messages : Len(inbox[1]) < MaxLen /\ ClientSend(1, r)
    \/ ClientHalfClose(1)
    \/ Dispatch
    \/ StreamNext(1)
    \/ StreamEnd(1)
    \/ StreamClassify(1)

SpecStream == Init /\ [][NextStream]_vars

\* every worker thread that can take a step gets to take it
FairStream ==
    /\ SpecStream
    /\ WF_vars(Dispatch)
    /\ WF_vars(StreamNext(1))
    /\ WF_vars(StreamEnd(1))
    /\ WF_vars(StreamClassify(1))

\* the process starts with a readable artifact on disk
InitPool == Init /\ artifact = <<"pickle", ByteTree>>

\* the server under more streaming calls than it has workers; the calls carry
\* no messages, and clients end them one at a time
NextPool ==
    \/ LoadModel
    \/ CreateServer
    \/ AddServicer
    \/ AddInsecurePort
    \/ Start
    \/ \E c \in 1..MaxPool : ClientOpenStream(c)
    \/ \E c \in 1..MaxPool :
          (\A d \in CallIds : half[d] => cst[d] \in Closed) /\ ClientHalfClose(c)
    \/ Dispatch
    \/ \E c \in CallIds : StreamEnd(c)

SpecPool == InitPool /\ [][NextPool]_vars

\* every worker thread that can take a step gets to take it
FairPool ==
    /\ SpecPool
    /\ WF_vars(Dispatch)
    /\ \A c \in CallIds : WF_vars(StreamEnd(c))

\* the server under one streaming call that the client may cancel
NextCancel ==
    \/ LoadModel
    \/ LoadFails
    \/ CreateServer
    \/ AddServicer
    \/ AddInsecurePort
    \/ Start
    \/ ClientOpenStream(1)
    \/ \E r \in Messages : Len(inbox[1]) < MaxLen /\ ClientSend(1, r)
    \/ ClientHalfClose(1)
    \/ ClientCancel(1)
    \/ Dispatch
    \/ StreamNext(1)
    \/ StreamEnd(1)
    \/ StreamCancelled(1)
    \/ StreamClassify(1)

SpecCancel == Init /\ [][NextCancel]_vars

\* every worker thread that can take a step gets to take it
FairCancel ==
    /\ SpecCancel
    /\ WF_vars(Dispatch)
    /\ WF_vars(StreamNext(1))
    /\ WF_vars(StreamEnd(1))
    /\ WF_vars(StreamCancelled(1))
    /\ WF_vars(StreamClassify(1))

(* ---------------------------------------------------------------------- *)
(* Properties of one ClassifyStreaming call                                *)
(* ---------------------------------------------------------------------- *)
Streams == {c \in CallIds : kind[c] = "stream"}

Unaries == {c \in CallIds : kind[c] = "unary"}

\* the loaded model's predict raises on the i-th message the client sent on call c
FailsAt(c, i) == predictRaises(model[1], features(inbox[c][i]))

\* the verdict the loaded model gives the i-th message the client sent on call c
VerdictAt(c, i) == predict(model[1], features(inbox[c][i]))[1] = 1

\* C1: on a streaming call, the i-th verdict emitted is the classification of
\* the i-th message received, for every i up to the number of verdicts emitted
\* so far, in every reachable state of the call.
C1_OrderPreserved ==
    \A c \in Streams : \A i \in 1..Len(out[c]) :
        /\ i <= Len(inbox[c])
        /\ ~FailsAt(c, i)
        /\ out[c][i] = VerdictAt(c, i)

\* a stream of three messages has been answered with verdicts that differ
C1_Witness ==
    /\ kind[1] = "stream"
    /\ Len(out[1]) = 3
    /\ out[1][1] # out[1][2]
    /\ out[1][2] # out[1][3]

\* C2: when a streaming call ends after the input closed normally and no
\* classification failed, the number of verdicts emitted equals the number of
\* messages received: none skipped, none answered twice.
C2_CompleteOnSuccess ==
    \A c \in Streams :
        cst[c] = "CLOSED_OK" =>
            /\ half[c]
            /\ Len(out[c]) = Len(inbox[c])
            /\ nread[c] = Len(inbox[c])

\* a stream of three messages has ended cleanly
C2_Witness ==
    /\ kind[1] = "stream"
    /\ cst[1] = "CLOSED_OK"
    /\ Len(inbox[1]) = 3

\* the positions of call c whose message makes the loaded model's predict raise
Failing(c) == {i \in 1..Len(inbox[c]) : FailsAt(c, i)}

\* the first of them
FirstFailing(c) == CHOOSE k \in Failing(c) : \A j \in Failing(c) : k <= j

\* C3: a streaming call whose first failing message is at position k emits
\* exactly k-1 verdicts and then ends with an error: never a verdict for
\* position k or later, never a clean end, and the loop never reads past k.
C3_FailFast ==
    \A c \in Streams :
        /\ Failing(c) # {} =>
              /\ Len(out[c]) <= FirstFailing(c) - 1
              /\ nread[c] <= FirstFailing(c)
              /\ cst[c] # "CLOSED_OK"
              /\ nread[c] = FirstFailing(c) => cst[c] \in {"CLASSIFYING", "CLOSED_ERROR"}
        /\ cst[c] = "CLOSED_ERROR" =>
              /\ Failing(c) # {}
              /\ Len(out[c]) = FirstFailing(c) - 1
              /\ status[c] \notin {"none", "OK"}

\* a stream failed on its second message of three, after one verdict
C3_Witness ==
    /\ kind[1] = "stream"
    /\ cst[1] = "CLOSED_ERROR"
    /\ Len(inbox[1]) = 3
    /\ FirstFailing(1) = 2
    /\ Len(out[1]) = 1

(* ---------------------------------------------------------------------- *)
(* Properties of the mapping between messages, rows and verdicts           *)
(* ---------------------------------------------------------------------- *)
\* C4: in Classify and in ClassifyStreaming alike, a verdict has malicious =
\* true exactly when the label the model answered for that message is 1;
\* every other label gives malicious = false.
C4_LabelMapping ==
    \A c \in CallIds :
        /\ Len(out[c]) = Len(labels[c])
        /\ \A i \in 1..Len(out[c]) : out[c][i] = TRUE <=> labels[c][i] = 1

\* a unary call and a streaming call have answered, one on label 1 and one on label 2
C4_Witness ==
    \E c \in Unaries, d \in Streams :
        /\ out[c] # <<>> /\ out[d] # <<>>
        /\ {labels[c][1], labels[d][1]} = {1, 2}

\* the ten fields of a flow record, in the order the model was trained on
FieldOrder ==
    <<"L4SrcPort", "L4DstPort", "Protocol", "L7Proto", "InBytes", "OutBytes",
      "InPkts", "OutPkts", "TCPFlags", "FlowDurationMilliseconds">>

\* C5: for every call, unary or per streamed message, the row handed to
\* predict is the message's ten fields in the order l4_src_port, l4_dst_port,
\* protocol, l7_protocol, in_bytes, out_bytes, in_packets, out_packets,
\* tcp_flags, flow_duration_ms: none dropped, duplicated or reordered.
C5_FeatureOrder ==
    \A c \in CallIds : \A i \in 1..Len(fed[c]) :
        /\ i <= Len(inbox[c])
        /\ Len(fed[c][i]) = Len(FieldOrder)
        /\ \A j \in 1..Len(FieldOrder) : fed[c][i][j] = inbox[c][i][FieldOrder[j]]

\* a unary call and the second message of a stream have both been handed to predict
C5_Witness ==
    \E c \in Unaries, d \in Streams : Len(fed[c]) = 1 /\ Len(fed[d]) = 2

(* ---------------------------------------------------------------------- *)
(* Properties of calls against the shared model                            *)
(* ---------------------------------------------------------------------- *)
\* C6: when unary Classify calls with distinct inputs run concurrently on the
\* worker pool, under every interleaving each call returns the verdict
\* computed from its own input and never one derived from another call's.
C6_NoCrossTalk ==
    \A c \in Unaries :
        /\ \A i \in 1..Len(fed[c]) : fed[c][i] = features(inbox[c][1])[1]
        /\ cst[c] = "CLOSED_OK" => ~FailsAt(c, 1) /\ out[c] = <<VerdictAt(c, 1)>>
        /\ cst[c] = "CLOSED_ERROR" => FailsAt(c, 1) /\ out[c] = <<>>
        /\ cst[c] \notin Closed => out[c] = <<>>

\* three calls with pairwise distinct inputs: the last one started has
\* returned while the two started before it are still on their workers
C6_Witness ==
    /\ cst[1] = "running" /\ cst[2] = "running" /\ cst[3] = "CLOSED_OK"
    /\ inbox[1] # inbox[2] /\ inbox[1] # inbox[3] /\ inbox[2] # inbox[3]

\* C7: for a fixed loaded model and a fixed message, repeated Classify calls
\* return the same outcome, whatever other calls ran in between.
C7_Deterministic ==
    \A c, d \in Unaries :
        (cst[c] \in Closed /\ cst[d] \in Closed /\ inbox[c] = inbox[d]) =>
            out[c] = out[d] /\ status[c] = status[d]

\* the first and the third call carried the same message and got a verdict;
\* the call between them carried another message and failed
C7_Witness ==
    /\ cst[1] = "CLOSED_OK" /\ cst[2] = "CLOSED_ERROR" /\ cst[3] = "CLOSED_OK"
    /\ inbox[1] = inbox[3]
    /\ inbox[1] # inbox[2]

\* the process has got past the class body of Classifier
Loaded == phase \in {"loaded", "created", "registered", "bound", "serving"}

\* C8: the model is loaded exactly once, at process start, and never reloaded,
\* replaced or mutated afterwards: every Classify call and every step of every
\* ClassifyStreaming call leaves the shared model as it was.
C8_ModelImmutable ==
    [][/\ loads' <= 1
       /\ Loaded => (model' = model /\ loads' = loads)
       /\ Loaded' => (loads' = 1 /\ model' = <<artifact[2]>>)]_vars

\* a unary call and a streaming call have both been through predict
C8_Witness ==
    /\ loads = 1
    /\ \E c \in Unaries, d \in Streams : fed[c] # <<>> /\ Len(fed[d]) = 2

(* ---------------------------------------------------------------------- *)
(* Properties of start-up and of failing calls                             *)
(* ---------------------------------------------------------------------- *)
\* C9: if the model artifact is missing or does not deserialize, the process
\* exits without ever binding the port or accepting a call; start-up runs
\* load model, construct the service, bind the port, serve, in that order,
\* and a failed load prevents every later step.
C9_StartupOrder ==
    /\ artifact[1] # "pickle" =>
          /\ phase \in {"import", "exited"}
          /\ model = NoModel
          /\ ~listener
          /\ \A c \in CallIds : cst[c] = "none"
    /\ phase \in {"created", "registered", "bound", "serving"} => loads = 1 /\ model # NoModel
    /\ listener => phase \in {"bound", "serving"}
    /\ (\E c \in CallIds : cst[c] # "none") => phase = "serving" /\ listener

\* the process has died on an artifact that does not unpickle
C9_Witness ==
    /\ artifact[1] = "garbage"
    /\ phase = "exited"
    /\ loads = 1
    /\ ~listener

\* C10: when feature extraction or predict fails during a unary Classify, the
\* call ends with the error status 'invalid argument' (malformed input) or
\* 'internal' (model failure), and no verdict is returned for it.
C10_NamedErrorStatus ==
    \A c \in Unaries :
        (cst[c] \in Closed /\ FailsAt(c, 1)) =>
            /\ cst[c] = "CLOSED_ERROR"
            /\ status[c] \in {"INVALID_ARGUMENT", "INTERNAL"}
            /\ out[c] = <<>>

(* ---------------------------------------------------------------------- *)
(* Properties of cancellation, shutdown and failure                        *)
(* ---------------------------------------------------------------------- *)
\* C11: once the client has cancelled a ClassifyStreaming call, no further
\* verdict is emitted on it, the verdicts sent before the cancellation stay
\* sent, and the call's worker is eventually released back to the pool.
C11_CancelStops ==
    /\ [][\A c \in Streams : status[c] = "CANCELLED" =>
              (out'[c] = out[c] /\ status'[c] = "CANCELLED")]_vars
    /\ \A c \in 1..MaxCalls :
          (kind[c] = "stream" /\ status[c] = "CANCELLED") ~> (c \notin Active /\ cst[c] \in Closed)

\* a stream was cancelled while its third message was being classified, after
\* two verdicts, and has ended without a third
C11_Witness ==
    /\ kind[1] = "stream"
    /\ status[1] = "CANCELLED"
    /\ cst[1] = "CLOSED_ERROR"
    /\ nread[1] = 3
    /\ Len(labels[1]) = 3
    /\ Len(out[1]) = 2

\* C12: on a termination signal the server stops accepting new calls and
\* lets every call already in flight run to completion before the process
\* exits; no in-flight call is cut off by the shutdown.
C12_GracefulShutdown ==
    [][(phase = "serving" /\ phase' = "exited") =>
          /\ \A c \in CallIds : cst[c] \in {"none", "CLOSED_OK", "CLOSED_ERROR"}
          /\ \A c \in CallIds : status'[c] = status[c]]_vars

\* call c fails or is cancelled in this step
ErrsNow(c) ==
    \/ status'[c] # status[c] /\ status'[c] \in {"UNKNOWN", "CANCELLED"}
    \/ cst[c] \notin Closed /\ cst'[c] = "CLOSED_ERROR"

\* the outcome of call d is the one its own messages and the loaded model give
OwnOutcome(d) ==
    /\ \A i \in 1..Len(out[d]) : i <= Len(inbox[d]) /\ ~FailsAt(d, i) /\ out[d][i] = VerdictAt(d, i)
    /\ (kind[d] = "unary" /\ cst[d] \in Closed) =>
          /\ status[d] = (IF FailsAt(d, 1) THEN "UNKNOWN" ELSE "OK")
          /\ Len(out[d]) = (IF FailsAt(d, 1) THEN 0 ELSE 1)
    /\ (kind[d] = "stream" /\ status[d] = "OK") =>
          /\ Failing(d) = {}
          /\ Len(out[d]) = Len(inbox[d])

\* C13: a per-call error (a failed classification or a cancellation) stays
\* local to its call: the step in which it happens leaves the server process
\* serving, the model as it was and every other call untouched, and every
\* call, whenever it started, has the outcome of its own input.
C13_ErrorLocal ==
    /\ [][\A c \in CallIds : ErrsNow(c) =>
              /\ phase' = "serving"
              /\ listener'
              /\ model' = model
              /\ \A d \in CallIds \ {c} :
                    /\ cst'[d] = cst[d]
                    /\ status'[d] = status[d]
                    /\ out'[d] = out[d]
                    /\ inbox'[d] = inbox[d]
                    /\ nread'[d] = nread[d]
                    /\ msg'[d] = msg[d]]_vars
    /\ [](\A d \in CallIds : OwnOutcome(d))

\* the first call failed in predict; the second, whose step came after,
\* carried a good message and has its verdict
C13_Witness ==
    /\ cst[1] = "CLOSED_ERROR" /\ status[1] = "UNKNOWN"
    /\ cst[2] = "CLOSED_OK" /\ Len(out[2]) >= 1
    /\ Len(fed[1]) + Len(fed[2]) >= 2

(* ---------------------------------------------------------------------- *)
(* The state machine of a ClassifyStreaming call                           *)
(* ---------------------------------------------------------------------- *)
\* the moves of call c that the state machine allows in one step
Move(c) ==
    \/ cst[c] = "none" /\ cst'[c] = "queued"
    \/ cst[c] = "queued" /\ cst'[c] = "AWAITING_RECORD"
    \/ /\ cst[c] = "AWAITING_RECORD" /\ cst'[c] = "CLASSIFYING"
       /\ nread[c] < Len(inbox[c])
       /\ nread'[c] = nread[c] + 1
       /\ out'[c] = out[c]
    \/ /\ cst[c] = "CLASSIFYING" /\ cst'[c] = "AWAITING_RECORD"
       /\ Len(out'[c]) = Len(out[c]) + 1
       /\ nread'[c] = nread[c]
    \/ /\ cst[c] = "AWAITING_RECORD" /\ cst'[c] = "CLOSED_OK"
       /\ half[c] /\ nread[c] = Len(inbox[c])
       /\ nread'[c] = nread[c] /\ out'[c] = out[c]
    \/ /\ cst[c] \in {"AWAITING_RECORD", "CLASSIFYING"} /\ cst'[c] = "CLOSED_ERROR"
       /\ status'[c] \in {"UNKNOWN", "CANCELLED"}
       /\ nread'[c] = nread[c] /\ out'[c] = out[c]

\* C14: a ClassifyStreaming call starts in AWAITING_RECORD; a record arrival
\* moves it to CLASSIFYING; emitting the verdict moves it back; end of input
\* moves AWAITING_RECORD to CLOSED_OK; a failure or a cancellation moves a
\* non-terminal state to CLOSED_ERROR; both closed states are terminal, with
\* no record read and no verdict emitted after them, and CLOSED_OK is never
\* entered from CLASSIFYING.
C14_StateMachine ==
    [][\A c \in Streams :
          /\ cst'[c] # cst[c] => Move(c)
          /\ cst'[c] = cst[c] => (nread'[c] = nread[c] /\ out'[c] = out[c])
          /\ cst[c] \in Closed => cst'[c] = cst[c]]_vars

\* a stream was cancelled while it waited for its second message and has ended
\* in error after one verdict; the message that arrived meanwhile is unread
C14_Witness ==
    /\ kind[1] = "stream"
    /\ cst[1] = "CLOSED_ERROR"
    /\ status[1] = "CANCELLED"
    /\ nread[1] = 1
    /\ Len(out[1]) = 1
    /\ Len(inbox[1]) = 2

\* C15: if the client closes the input of a ClassifyStreaming call and no
\* message on it fails, the call eventually reaches CLOSED_OK, and it is
\* there only with a verdict emitted for every message received.
C15_CleanClose ==
    /\ \A c \in 1..MaxCalls :
          (kind[c] = "stream" /\ half[c] /\ Failing(c) = {}) ~> cst[c] = "CLOSED_OK"
    /\ [](\A c \in Streams : cst[c] = "CLOSED_OK" =>
              /\ Len(out[c]) = Len(inbox[c])
              /\ \A i \in 1..Len(inbox[c]) : out[c][i] = VerdictAt(c, i))

\* the client closed after two messages that got different verdicts, and the
\* call has ended cleanly
C15_Witness ==
    /\ kind[1] = "stream"
    /\ half[1]
    /\ cst[1] = "CLOSED_OK"
    /\ Len(out[1]) = 2
    /\ out[1][1] # out[1][2]

(* ---------------------------------------------------------------------- *)
(* Properties of the worker pool                                           *)
(* ---------------------------------------------------------------------- *)
\* the calls whose handler has been started and has not ended
Serving == {c \in CallIds : cst[c] \notin {"none", "queued", "CLOSED_OK", "CLOSED_ERROR"}}

\* C16: at every moment at most 10 calls are being executed by workers; a
\* streaming call holds its worker from its start to its terminal state, also
\* while it waits idle for a message, so the streaming calls served at once
\* never outnumber the pool.
C16_PoolBound ==
    /\ Cardinality(Serving) <= max_workers
    /\ Cardinality({c \in Streams : cst[c] \in {"AWAITING_RECORD", "CLASSIFYING"}}) <= max_workers

\* ten streams wait idle on the ten workers and an eleventh call is in the queue
C16_Witness ==
    /\ Cardinality({c \in Streams : cst[c] = "AWAITING_RECORD" /\ ~half[c]}) = max_workers
    /\ Len(queue) >= 1

\* C17: a call that arrives while all 10 workers are occupied is queued, not
\* rejected or dropped; a queued call is never started while the pool is
\* full, and a call beyond the tenth, which may have found the pool full,
\* starts once it is at the head of the queue and a worker is free.
C17_QueueWhenFull ==
    /\ [][\A c \in CallIds :
              /\ (cst[c] = "none" /\ cst'[c] # "none") =>
                    (cst'[c] = "queued" /\ queue' = Append(queue, c))
              /\ (cst[c] = "queued" /\ cst'[c] # "queued") =>
                    /\ Cardinality(Serving) < max_workers
                    /\ cst'[c] \in {"running", "AWAITING_RECORD"}
                    /\ queue = <<c>> \o queue']_vars
    /\ [](\A c \in CallIds : cst[c] = "queued" <=> \E i \in 1..Len(queue) : queue[i] = c)
    /\ \A c \in (max_workers + 1)..MaxPool :
          (cst[c] = "queued" /\ Cardinality(Serving) < max_workers /\ queue[1] = c)
              ~> cst[c] \notin {"none", "queued"}

\* the eleventh call found the ten workers taken and waited; one of the ten
\* has ended and the eleventh is now on a worker, the pool full again
C17_Witness ==
    /\ cst[max_workers + 1] = "AWAITING_RECORD"
    /\ Cardinality(Serving) = max_workers
    /\ Cardinality({c \in 1..max_workers : cst[c] = "CLOSED_OK"}) = 1

(* ---------------------------------------------------------------------- *)
(* Streaming against unary classification, and the pace of the loop        *)
(* ---------------------------------------------------------------------- *)
\* C18: the verdict emitted for a message inside a ClassifyStreaming call
\* depends only on that message and the loaded model: it equals the verdict a
\* unary Classify returns for the same message, whatever came before it in
\* the stream and whatever its position.
C18_StreamEqualsUnary ==
    \A c \in Streams : \A i \in 1..Len(out[c]) :
        /\ \A d \in Unaries :
              (cst[d] \in Closed /\ inbox[d][1] = inbox[c][i]) => out[d] = <<out[c][i]>>
        /\ \A e \in Streams : \A j \in 1..Len(out[e]) :
              inbox[e][j] = inbox[c][i] => out[e][j] = out[c][i]

\* a message answered at the second place of a stream, after a different
\* one, was also answered by a unary call
C18_Witness ==
    \E c \in Streams, d \in Unaries :
        /\ Len(out[c]) = 2
        /\ inbox[c][1] # inbox[c][2]
        /\ inbox[d][1] = inbox[c][2]
        /\ Len(out[d]) = 1

\* C19: within one ClassifyStreaming call the handler runs in lock-step: the
\* verdicts emitted are at most the messages taken and at least that number
\* minus one; message n+1 is never taken before the verdict for message n is
\* out, and no verdict is emitted for a message not taken.
C19_LockStep ==
    \A c \in Streams :
        /\ Len(out[c]) <= nread[c]
        /\ nread[c] <= Len(out[c]) + 1
        /\ nread[c] <= Len(inbox[c])
        /\ cst[c] \in {"queued", "AWAITING_RECORD", "CLOSED_OK"} => nread[c] = Len(out[c])
        /\ cst[c] = "CLASSIFYING" => nread[c] = Len(out[c]) + 1

\* the third message of a stream is being classified while two verdicts are out
C19_Witness ==
    /\ kind[1] = "stream"
    /\ cst[1] = "CLASSIFYING"
    /\ nread[1] = 3
    /\ Len(out[1]) = 2

====
